---- MODULE Spec2Model ----
(***************************************************************************)
(* Model of the order-processing browser client, class OrderProcessingApp  *)
(* of static/js/app_fresh.js: the order cache (orders Map + ordersArray),  *)
(* the selection Set, pagination, the WebSocket connection with its        *)
(* reconnect timer, and the operator command handlers.                     *)
(*                                                                         *)
(* One action per handler (inbound frame, transport event, timer, operator *)
(* action).  JavaScript runs each handler to completion, so an action is   *)
(* the whole handler.  A Map is modelled as the sequence of its entries in *)
(* insertion order, a Set as the sequence of its members in insertion      *)
(* order, an Array as a sequence.                                          *)
(***************************************************************************)
EXTENDS Integers, Sequences, FiniteSets, TLC

VARIABLES
    orders,          \* this.orders: Map order_id -> order, in insertion order
    ordersArray,     \* this.ordersArray: the orders sorted newest first
    selectedOrders,  \* this.selectedOrders: Set of order ids, in insertion order
    isConnected,     \* this.isConnected
    currentPage,     \* this.currentPage
    pageSize,        \* this.pageSize
    maxOrders,       \* this.maxOrders
    ws,              \* state of the socket this.ws (see WsStates)
    timers,          \* number of pending reconnect timers (setTimeout of onclose)
    modalShown,      \* the confirmation modal carries the class 'show'
    onConfirm,       \* the callback bound to the modal's confirm button
    rendered,        \* the rows of the table body, as left by the last render
    last             \* the handler that ran last, its input and its effects

vars == <<orders, ordersArray, selectedOrders, isConnected, currentPage, pageSize,
          maxOrders, ws, timers, modalShown, onConfirm, rendered, last>>

cacheVars == <<orders, ordersArray, selectedOrders, currentPage, pageSize, maxOrders, rendered>>
connVars == <<isConnected, ws, timers>>
modalVars == <<modalShown, onConfirm>>

----------------------------------------------------------------------------
(* Bounds and program constants *)

\* Timestamps of orders are 1..MaxTime (instants; larger is newer).
MaxTime == 2

\* Cap on the number of pending reconnect timers.
MaxTimers == 2

\* Largest page number goToPage is called with directly.
MaxPageArg == 3

\* Largest number of orders in the long order book.
MaxBook == 57

\* this.pageSize = 25 in the constructor.
DefaultPageSize == 25

\* this.maxOrders = 500 in the constructor, and the fallback of updateMaxOrdersLimit.
DefaultMaxOrders == 500

Ids == {"A", "B", "C"}

Statuses == {"Pending", "Processing", "Done"}

\* The choices of the page-size <select>; the constructor's 25 is one of them.
PageSizes == {2, DefaultPageSize}

\* The order records a frame can carry.
Order == [order_id : Ids, status : Statuses, timestamp : 1..MaxTime]

\* Texts the operator can type into the maxOrders input.
CapacityTexts == {"-1", "0", "abc", "2"}

\* Socket states: the readyState of this.ws; ERRORED is a socket whose connection
\* has failed and whose error event has been dispatched while its close event,
\* dispatched next in the same task, has not run yet.
WsStates == {"CONNECTING", "OPEN", "ERRORED", "CLOSED"}

----------------------------------------------------------------------------
(* JavaScript built-ins used by the code *)

Min(a, b) == IF a < b THEN a ELSE b

Max(a, b) == IF a > b THEN a ELSE b

\* Array.prototype.slice(start, end) on a sequence (indices are 0-based in JS).
Slice(arr, start, end) ==
    LET len == Len(arr)
        k == IF start < 0 THEN Max(len + start, 0) ELSE Min(start, len)
        e == IF end < 0 THEN Max(len + end, 0) ELSE Min(end, len)
    IN  IF k >= e THEN <<>> ELSE SubSeq(arr, k + 1, e)

\* Math.ceil(a / b) for a >= 0, b > 0.
CeilDiv(a, b) == (a + b - 1) \div b

\* parseInt of the texts of CapacityTexts: a number, or NaN.
ParseInt(text) ==
    CASE text = "-1" -> [nan |-> FALSE, val |-> -1]
      [] text = "0" -> [nan |-> FALSE, val |-> 0]
      [] text = "1" -> [nan |-> FALSE, val |-> 1]
      [] text = "2" -> [nan |-> FALSE, val |-> 2]
      [] OTHER -> [nan |-> TRUE, val |-> 0]

\* x || d for a number x: d when x is NaN or 0.
OrDefault(x, d) == IF x.nan \/ x.val = 0 THEN d ELSE x.val

\* Map: keys, has, get, set (an existing key keeps its place), delete.
Keys(m) == {m[i].order_id : i \in 1..Len(m)}

MapHas(m, id) == id \in Keys(m)

\* A set that adds a new entry even when the key is already present.
MapSet_AlwaysAppend(m, o) == Append(m, o)

MapGet(m, id) == m[CHOOSE i \in 1..Len(m) : m[i].order_id = id]

MapSet(m, o) ==
    IF MapHas(m, o.order_id)
    THEN [i \in 1..Len(m) |-> IF m[i].order_id = o.order_id THEN o ELSE m[i]]
    ELSE Append(m, o)

MapDelete(m, id) == SelectSeq(m, LAMBDA r : r.order_id # id)

\* Set: has, add (a member keeps its place), delete.
SetHas(s, id) == \E i \in 1..Len(s) : s[i] = id

SetAdd(s, id) == IF SetHas(s, id) THEN s ELSE Append(s, id)

SetDelete(s, id) == SelectSeq(s, LAMBDA x : x # id)

\* Array.prototype.sort with the comparator (a, b) => new Date(b.timestamp) -
\* new Date(a.timestamp): a stable sort, newest first.  Insertion of x behind
\* every element that does not compare after it.
RECURSIVE InsertSorted_Unstable(_, _)
InsertSorted_Unstable(s, x) ==
    IF s = <<>> THEN <<x>>
    ELSE IF x.timestamp - Head(s).timestamp >= 0
         THEN <<x>> \o s
         ELSE <<Head(s)>> \o InsertSorted_Unstable(Tail(s), x)

RECURSIVE InsertSorted(_, _)
InsertSorted(s, x) ==
    IF s = <<>> THEN <<x>>
    ELSE IF x.timestamp - Head(s).timestamp > 0
         THEN <<x>> \o s
         ELSE <<Head(s)>> \o InsertSorted(Tail(s), x)

RECURSIVE SortNewestFirst(_)
SortNewestFirst(s) ==
    IF s = <<>> THEN <<>>
    ELSE InsertSorted(SortNewestFirst(SubSeq(s, 1, Len(s) - 1)), s[Len(s)])

\* Array.from(this.orders.values()).sort(...)
SortedValues(m) == SortNewestFirst(m)

\* forEach(order => map.delete(order.order_id)) over the sequence olds.
RECURSIVE DeleteAll(_, _)
DeleteAll(m, olds) ==
    IF olds = <<>> THEN m ELSE DeleteAll(MapDelete(m, Head(olds).order_id), Tail(olds))

RECURSIVE SetDeleteAll(_, _)
SetDeleteAll(s, olds) ==
    IF olds = <<>> THEN s ELSE SetDeleteAll(SetDelete(s, Head(olds).order_id), Tail(olds))

----------------------------------------------------------------------------
(* State after construction: constructor and init(), which calls connectWebSocket *)

\* What a handler did: its name, its input, the commands it sent on the socket
\* (ws.send), the status messages it showed (showStatus), and for a cache
\* mutation the sorted array before eviction, the evicted orders and the
\* selected ids that eviction dropped.
Did(op) ==
    [op |-> op, id |-> "", page |-> 0, order |-> <<>>, sent |-> <<>>, shown |-> <<>>,
     before |-> <<>>, evicted |-> <<>>, dropped |-> <<>>]

NoCallback == [fn |-> "none", ids |-> <<>>]

Init ==
    /\ orders = <<>>
    /\ ordersArray = <<>>
    /\ selectedOrders = <<>>
    /\ isConnected = FALSE
    /\ currentPage = 1
    /\ pageSize = DefaultPageSize
    /\ maxOrders = DefaultMaxOrders
    /\ ws = "CONNECTING"
    /\ timers = 0
    /\ modalShown = FALSE
    /\ onConfirm = NoCallback
    /\ rendered = <<>>
    /\ last = Did("init")

\* No handler runs between the error event and the close event of a failed socket.
Idle == ws # "ERRORED"

----------------------------------------------------------------------------
(* Order cache *)

\* The ids of selected that are ids of the orders olds, in selection order.
DroppedIds(selected, olds) ==
    SelectSeq(selected, LAMBDA x : \E i \in 1..Len(olds) : olds[i].order_id = x)

\* enforceMaxOrdersLimit: the orders, ordersArray and selectedOrders it leaves,
\* and the orders it removed.
enforceMaxOrdersLimit_NoDeselect(ord, arr, sel, max) ==
    IF Len(arr) > max
    THEN LET ordersToRemove == Len(arr) - max
             oldestOrders == Slice(arr, -ordersToRemove, Len(arr))
             kept == DeleteAll(ord, oldestOrders)
         IN  [orders |-> kept, ordersArray |-> SortedValues(kept),
              selectedOrders |-> sel, evicted |-> oldestOrders]
    ELSE [orders |-> ord, ordersArray |-> arr, selectedOrders |-> sel, evicted |-> <<>>]

\* An enforceMaxOrdersLimit that evicts the orders that were inserted first,
\* whatever their timestamps.
enforceMaxOrdersLimit_FirstInserted(ord, arr, sel, max) ==
    IF Len(arr) > max
    THEN LET ordersToRemove == Len(arr) - max
             oldestOrders == Slice(ord, 0, ordersToRemove)
             kept == DeleteAll(ord, oldestOrders)
         IN  [orders |-> kept, ordersArray |-> SortedValues(kept),
              selectedOrders |-> SetDeleteAll(sel, oldestOrders),
              evicted |-> oldestOrders]
    ELSE [orders |-> ord, ordersArray |-> arr, selectedOrders |-> sel, evicted |-> <<>>]

\* An enforceMaxOrdersLimit that deletes from the map and the selection but
\* does not rebuild ordersArray.
enforceMaxOrdersLimit_StaleArray(ord, arr, sel, max) ==
    IF Len(arr) > max
    THEN LET ordersToRemove == Len(arr) - max
             oldestOrders == Slice(arr, -ordersToRemove, Len(arr))
         IN  [orders |-> DeleteAll(ord, oldestOrders), ordersArray |-> arr,
              selectedOrders |-> SetDeleteAll(sel, oldestOrders),
              evicted |-> oldestOrders]
    ELSE [orders |-> ord, ordersArray |-> arr, selectedOrders |-> sel, evicted |-> <<>>]

\* An enforceMaxOrdersLimit that also drops the Done orders of a cache that is
\* within its capacity.
enforceMaxOrdersLimit_DropsDone(ord, arr, sel, max) ==
    LET oldestOrders ==
            IF Len(arr) > max
            THEN Slice(arr, -(Len(arr) - max), Len(arr))
            ELSE SelectSeq(arr, LAMBDA o : o.status = "Done")
        kept == DeleteAll(ord, oldestOrders)
    IN  [orders |-> kept, ordersArray |-> SortedValues(kept),
         selectedOrders |-> SetDeleteAll(sel, oldestOrders),
         evicted |-> oldestOrders]

enforceMaxOrdersLimit(ord, arr, sel, max) ==
    IF Len(arr) > max
    THEN LET ordersToRemove == Len(arr) - max
             oldestOrders == Slice(arr, -ordersToRemove, Len(arr))
             kept == DeleteAll(ord, oldestOrders)
         IN  [orders |-> kept, ordersArray |-> SortedValues(kept),
              selectedOrders |-> SetDeleteAll(sel, oldestOrders),
              evicted |-> oldestOrders]
    ELSE [orders |-> ord, ordersArray |-> arr, selectedOrders |-> sel, evicted |-> <<>>]

\* A getTotalPages that rounds down.
getTotalPages_Floor(arr, size) == Len(arr) \div size

\* getTotalPages
getTotalPages(arr, size) == CeilDiv(Len(arr), size)

\* A renderCurrentPage whose slice runs one row into the next page.
renderCurrentPage_Overlap(arr, page, size) ==
    LET start == (page - 1) * size
        end == start + size + 1
    IN  Slice(arr, start, end)

\* renderCurrentPage: the rows it puts in the table body.
renderCurrentPage(arr, page, size) ==
    LET start == (page - 1) * size
        end == start + size
    IN  Slice(arr, start, end)

\* The body of addOrderToTable(order): the fields and the table body it leaves,
\* with the ordering before eviction and the orders evicted.
addOrderToTableDoes(order) ==
    LET inserted == MapSet(orders, order)
        sorted == SortedValues(inserted)
        e == enforceMaxOrdersLimit(inserted, sorted, selectedOrders, maxOrders)
    IN  [orders |-> e.orders, ordersArray |-> e.ordersArray,
         selectedOrders |-> e.selectedOrders,
         rendered |-> renderCurrentPage(e.ordersArray, currentPage, pageSize),
         before |-> sorted, evicted |-> e.evicted]

\* addOrderToTable(order), the handler of an order_item frame.
addOrderToTable(order) ==
    LET d == addOrderToTableDoes(order)
    IN  /\ orders' = d.orders
        /\ ordersArray' = d.ordersArray
        /\ selectedOrders' = d.selectedOrders
        /\ rendered' = d.rendered
        /\ last' = [Did("order_item") EXCEPT !.id = order.order_id, !.order = <<order>>,
                      !.before = d.before, !.evicted = d.evicted,
                      !.dropped = DroppedIds(selectedOrders, d.evicted)]
        /\ UNCHANGED <<currentPage, pageSize, maxOrders>>

\* An updateOrderInTable that updates cached orders only: a record whose id is
\* not in the cache is dropped.
updateOrderInTable_OnlyKnown(order) ==
    LET inserted == IF MapHas(orders, order.order_id) THEN MapSet(orders, order) ELSE orders
        sorted == SortedValues(inserted)
        e == enforceMaxOrdersLimit(inserted, sorted, selectedOrders, maxOrders)
    IN  /\ orders' = e.orders
        /\ ordersArray' = e.ordersArray
        /\ selectedOrders' = e.selectedOrders
        /\ rendered' = renderCurrentPage(e.ordersArray, currentPage, pageSize)
        /\ last' = [Did("order_updated") EXCEPT !.id = order.order_id, !.order = <<order>>,
                      !.before = sorted, !.evicted = e.evicted,
                      !.dropped = DroppedIds(selectedOrders, e.evicted)]
        /\ UNCHANGED <<currentPage, pageSize, maxOrders>>

\* updateOrderInTable(order), the handler of an order_updated frame.
updateOrderInTable(order) ==
    LET inserted == MapSet(orders, order)
        sorted == SortedValues(inserted)
        e == enforceMaxOrdersLimit(inserted, sorted, selectedOrders, maxOrders)
    IN  /\ orders' = e.orders
        /\ ordersArray' = e.ordersArray
        /\ selectedOrders' = e.selectedOrders
        /\ rendered' = renderCurrentPage(e.ordersArray, currentPage, pageSize)
        /\ last' = [Did("order_updated") EXCEPT !.id = order.order_id, !.order = <<order>>,
                      !.before = sorted, !.evicted = e.evicted,
                      !.dropped = DroppedIds(selectedOrders, e.evicted)]
        /\ UNCHANGED <<currentPage, pageSize, maxOrders>>

\* ws.onmessage -> handleMessage, case 'order_item'
OnOrderItem(order) ==
    /\ ws = "OPEN"
    /\ addOrderToTable(order)
    /\ UNCHANGED <<connVars, modalVars>>

\* ws.onmessage -> handleMessage, case 'order_updated'
OnOrderUpdated(order) ==
    /\ ws = "OPEN"
    /\ updateOrderInTable(order)
    /\ UNCHANGED <<connVars, modalVars>>

\* An updateMaxOrdersLimit that evicts but leaves the table body as it was.
updateMaxOrdersLimit_NoRender(text) ==
    /\ Idle
    /\ LET max == OrDefault(ParseInt(text), DefaultMaxOrders)
           e == enforceMaxOrdersLimit(orders, ordersArray, selectedOrders, max)
       IN  /\ maxOrders' = max
           /\ orders' = e.orders
           /\ ordersArray' = e.ordersArray
           /\ selectedOrders' = e.selectedOrders
           /\ last' = [Did("updateMaxOrdersLimit") EXCEPT !.id = text,
                         !.before = ordersArray, !.evicted = e.evicted,
                         !.dropped = DroppedIds(selectedOrders, e.evicted)]
    /\ UNCHANGED <<rendered, currentPage, pageSize, connVars, modalVars>>

\* updateMaxOrdersLimit, the change handler of the maxOrders input holding text.
updateMaxOrdersLimit(text) ==
    /\ Idle
    /\ LET max == OrDefault(ParseInt(text), DefaultMaxOrders)
           e == enforceMaxOrdersLimit(orders, ordersArray, selectedOrders, max)
       IN  /\ maxOrders' = max
           /\ orders' = e.orders
           /\ ordersArray' = e.ordersArray
           /\ selectedOrders' = e.selectedOrders
           /\ rendered' = renderCurrentPage(e.ordersArray, currentPage, pageSize)
           /\ last' = [Did("updateMaxOrdersLimit") EXCEPT !.id = text,
                         !.before = ordersArray, !.evicted = e.evicted,
                         !.dropped = DroppedIds(selectedOrders, e.evicted)]
    /\ UNCHANGED <<currentPage, pageSize, connVars, modalVars>>

----------------------------------------------------------------------------
(* Pagination and selection *)

\* A page-size change that stays on the page that was shown.
SetPageSize_KeepsPage(n) ==
    /\ Idle
    /\ pageSize' = n
    /\ rendered' = renderCurrentPage(ordersArray, currentPage, n)
    /\ last' = [Did("pageSize") EXCEPT !.page = currentPage]
    /\ UNCHANGED <<orders, ordersArray, selectedOrders, currentPage, maxOrders,
                   connVars, modalVars>>

\* The change handler of the page-size select; last.page keeps the page that
\* was shown when the size was changed.
SetPageSize(n) ==
    /\ Idle
    /\ pageSize' = n
    /\ currentPage' = 1
    /\ rendered' = renderCurrentPage(ordersArray, 1, n)
    /\ last' = [Did("pageSize") EXCEPT !.page = currentPage]
    /\ UNCHANGED <<orders, ordersArray, selectedOrders, maxOrders, connVars, modalVars>>

\* A goToPage that rejects only pages below 1.
goToPage_NoUpperCheck(page) ==
    /\ Idle
    /\ IF page < 1
       THEN UNCHANGED <<currentPage, rendered>>
       ELSE /\ currentPage' = page
            /\ rendered' = renderCurrentPage(ordersArray, page, pageSize)
    /\ last' = [Did("goToPage") EXCEPT !.page = page]
    /\ UNCHANGED <<orders, ordersArray, selectedOrders, pageSize, maxOrders, connVars, modalVars>>

\* goToPage(page)
goToPage(page) ==
    /\ Idle
    /\ LET totalPages == getTotalPages(ordersArray, pageSize)
       IN  IF page < 1 \/ page > totalPages
           THEN UNCHANGED <<currentPage, rendered>>
           ELSE /\ currentPage' = page
                /\ rendered' = renderCurrentPage(ordersArray, page, pageSize)
    /\ last' = [Did("goToPage") EXCEPT !.page = page]
    /\ UNCHANGED <<orders, ordersArray, selectedOrders, pageSize, maxOrders, connVars, modalVars>>

\* The four page buttons: first, previous, next, last.
PageButtons == {1, currentPage - 1, currentPage + 1, getTotalPages(ordersArray, pageSize)}

\* Pages goToPage is called with: the buttons' and, the method being public
\* on window.app, any page number from 0 to MaxPageArg.
PageArgs == PageButtons \cup (0..MaxPageArg)

RenderedIds == {rendered[i].order_id : i \in 1..Len(rendered)}

\* toggleOrderSelection(orderId), the click handler of a rendered row.
toggleOrderSelection(orderId) ==
    /\ Idle
    /\ orderId \in RenderedIds
    /\ selectedOrders' = IF SetHas(selectedOrders, orderId)
                         THEN SetDelete(selectedOrders, orderId)
                         ELSE SetAdd(selectedOrders, orderId)
    /\ last' = [Did("toggleOrderSelection") EXCEPT !.id = orderId]
    /\ UNCHANGED <<orders, ordersArray, currentPage, pageSize, maxOrders, rendered,
                   connVars, modalVars>>

Status(text, type) == [text |-> text, type |-> type]

\* deselectAllOrders
deselectAllOrders ==
    /\ Idle
    /\ IF Len(selectedOrders) = 0
       THEN /\ last' = [Did("deselectAllOrders") EXCEPT
                          !.shown = <<Status("No orders are currently selected", "info")>>]
            /\ UNCHANGED <<selectedOrders, rendered>>
       ELSE /\ selectedOrders' = <<>>
            /\ rendered' = renderCurrentPage(ordersArray, currentPage, pageSize)
            /\ last' = [Did("deselectAllOrders") EXCEPT
                          !.shown = <<Status("Deselected orders", "success")>>]
    /\ UNCHANGED <<orders, ordersArray, currentPage, pageSize, maxOrders, connVars, modalVars>>

----------------------------------------------------------------------------
(* Connection: connectWebSocket and the handlers it installs *)

\* An onopen that starts every connection with an empty cache and selection.
OnOpen_ClearsCache ==
    /\ ws = "CONNECTING"
    /\ ws' = "OPEN"
    /\ isConnected' = TRUE
    /\ orders' = <<>>
    /\ ordersArray' = <<>>
    /\ selectedOrders' = <<>>
    /\ rendered' = <<>>
    /\ last' = Did("onopen")
    /\ UNCHANGED <<timers, currentPage, pageSize, maxOrders, modalVars>>

\* ws.onopen
OnOpen ==
    /\ ws = "CONNECTING"
    /\ ws' = "OPEN"
    /\ isConnected' = TRUE
    /\ last' = Did("onopen")
    /\ UNCHANGED <<timers, cacheVars, modalVars>>

OnError_Reconnects ==
    /\ ws \in {"CONNECTING", "OPEN"}
    /\ timers < MaxTimers
    /\ ws' = "ERRORED"
    /\ timers' = timers + 1
    /\ last' = Did("onerror")
    /\ UNCHANGED <<isConnected, cacheVars, modalVars>>

\* ws.onerror: the connection has failed; only the status display changes.
OnError ==
    /\ ws \in {"CONNECTING", "OPEN"}
    /\ ws' = "ERRORED"
    /\ last' = Did("onerror")
    /\ UNCHANGED <<isConnected, timers, cacheVars, modalVars>>

\* An onclose that schedules the reconnection twice.
OnClose_RetriesTwice ==
    /\ ws \in {"CONNECTING", "OPEN", "ERRORED"}
    /\ timers < MaxTimers
    /\ ws' = "CLOSED"
    /\ isConnected' = FALSE
    /\ timers' = timers + 2
    /\ last' = Did("onclose")
    /\ UNCHANGED <<cacheVars, modalVars>>

\* An onclose that gives up: it schedules no reconnection.
OnClose_NoRetry ==
    /\ ws \in {"CONNECTING", "OPEN", "ERRORED"}
    /\ ws' = "CLOSED"
    /\ isConnected' = FALSE
    /\ last' = Did("onclose")
    /\ UNCHANGED <<timers, cacheVars, modalVars>>

\* ws.onclose: after an error, or a close without error (by the server or the network).
OnClose ==
    /\ ws \in {"CONNECTING", "OPEN", "ERRORED"}
    /\ timers < MaxTimers
    /\ ws' = "CLOSED"
    /\ isConnected' = FALSE
    /\ timers' = timers + 1
    /\ last' = Did("onclose")
    /\ UNCHANGED <<cacheVars, modalVars>>

\* A reconnect callback on an interval: it stays scheduled after it has run.
ReconnectTimer_Interval ==
    /\ Idle
    /\ timers > 0
    /\ ws' = IF ~isConnected THEN "CONNECTING" ELSE ws
    /\ last' = Did("reconnectTimer")
    /\ UNCHANGED <<timers, isConnected, cacheVars, modalVars>>

\* The setTimeout callback of onclose; connectWebSocket makes a new socket.
ReconnectTimer ==
    /\ Idle
    /\ timers > 0
    /\ timers' = timers - 1
    /\ ws' = IF ~isConnected THEN "CONNECTING" ELSE ws
    /\ last' = Did("reconnectTimer")
    /\ UNCHANGED <<isConnected, cacheVars, modalVars>>

----------------------------------------------------------------------------
(* Inbound frames that carry no order: handleMessage, cases 'status', 'error', default *)

OnStatusFrame ==
    /\ ws = "OPEN"
    /\ last' = [Did("status") EXCEPT !.shown = <<Status("server message", "success")>>]
    /\ UNCHANGED <<cacheVars, connVars, modalVars>>

\* An error frame that is fatal: the client takes the connection for lost.
OnErrorFrame_Fatal ==
    /\ ws = "OPEN"
    /\ isConnected' = FALSE
    /\ last' = [Did("error") EXCEPT !.shown = <<Status("server message", "error")>>]
    /\ UNCHANGED <<ws, timers, cacheVars, modalVars>>

OnErrorFrame ==
    /\ ws = "OPEN"
    /\ last' = [Did("error") EXCEPT !.shown = <<Status("server message", "error")>>]
    /\ UNCHANGED <<cacheVars, connVars, modalVars>>

OnUnknownFrame ==
    /\ ws = "OPEN"
    /\ last' = Did("unknown")
    /\ UNCHANGED <<cacheVars, connVars, modalVars>>

----------------------------------------------------------------------------
(* Operator commands *)

\* An outbound command; the numbers of start_stream and generate_batch are read
\* from form fields and are no part of the model.
Cmd(command, id) == [command |-> command, order_id |-> id]

NotConnected == Status("Not connected to server", "error")

\* startStream, stopStream, generateBatch
StreamCommand(op, command) ==
    /\ Idle
    /\ last' = IF ~isConnected
               THEN [Did(op) EXCEPT !.shown = <<NotConnected>>]
               ELSE [Did(op) EXCEPT !.sent = <<Cmd(command, "")>>]
    /\ UNCHANGED <<cacheVars, connVars, modalVars>>

startStream == StreamCommand("startStream", "start_stream")

stopStream == StreamCommand("stopStream", "stop_stream")

generateBatch == StreamCommand("generateBatch", "generate_batch")

\* The body of processOrder(orderId): what it sends and shows.
processOrderDoes(orderId) ==
    IF ~isConnected
    THEN [sent |-> <<>>, shown |-> <<NotConnected>>]
    ELSE [sent |-> <<Cmd("process_order", orderId)>>, shown |-> <<>>]

\* A processOrder that marks the cached order Processing before the server
\* has answered.
processOrder_Optimistic(orderId) ==
    /\ Idle
    /\ LET d == processOrderDoes(orderId)
           ord == IF isConnected /\ MapHas(orders, orderId)
                  THEN MapSet(orders, [MapGet(orders, orderId) EXCEPT !.status = "Processing"])
                  ELSE orders
       IN  /\ orders' = ord
           /\ ordersArray' = SortedValues(ord)
           /\ rendered' = renderCurrentPage(SortedValues(ord), currentPage, pageSize)
           /\ last' = [Did("processOrder") EXCEPT !.id = orderId, !.sent = d.sent,
                         !.shown = d.shown]
    /\ UNCHANGED <<selectedOrders, currentPage, pageSize, maxOrders, connVars, modalVars>>

\* processOrder(orderId), called by a row's Process button.
processOrder(orderId) ==
    /\ Idle
    /\ LET d == processOrderDoes(orderId)
       IN  last' = [Did("processOrder") EXCEPT !.id = orderId, !.sent = d.sent,
                      !.shown = d.shown]
    /\ UNCHANGED <<cacheVars, connVars, modalVars>>

\* showConfirmationModal(message, onConfirm)
showConfirmationModal(callback) ==
    /\ modalShown' = TRUE
    /\ onConfirm' = callback

\* closeOrder(orderId), called by a row's Close button.
closeOrder_NoStatusCheck(orderId) ==
    /\ Idle
    /\ IF ~isConnected
       THEN /\ last' = [Did("closeOrder") EXCEPT !.id = orderId, !.shown = <<NotConnected>>]
            /\ UNCHANGED modalVars
       ELSE IF ~MapHas(orders, orderId)
       THEN /\ last' = [Did("closeOrder") EXCEPT !.id = orderId,
                          !.shown = <<Status("Order not found", "error")>>]
            /\ UNCHANGED modalVars
       ELSE /\ last' = [Did("closeOrder") EXCEPT !.id = orderId]
            /\ showConfirmationModal([fn |-> "performCloseOrder", ids |-> <<orderId>>])
    /\ UNCHANGED <<cacheVars, connVars>>

closeOrder(orderId) ==
    /\ Idle
    /\ IF ~isConnected
       THEN /\ last' = [Did("closeOrder") EXCEPT !.id = orderId, !.shown = <<NotConnected>>]
            /\ UNCHANGED modalVars
       ELSE IF ~MapHas(orders, orderId)
       THEN /\ last' = [Did("closeOrder") EXCEPT !.id = orderId,
                          !.shown = <<Status("Order not found", "error")>>]
            /\ UNCHANGED modalVars
       ELSE IF MapGet(orders, orderId).status # "Processing"
       THEN /\ last' = [Did("closeOrder") EXCEPT !.id = orderId,
                          !.shown = <<Status("Only processing orders can be closed", "error")>>]
            /\ UNCHANGED modalVars
       ELSE /\ last' = [Did("closeOrder") EXCEPT !.id = orderId]
            /\ showConfirmationModal([fn |-> "performCloseOrder", ids |-> <<orderId>>])
    /\ UNCHANGED <<cacheVars, connVars>>

\* performCloseOrder(orderId): what it sends and shows.
performCloseOrder_NoRecheck(orderId) ==
    [sent |-> <<Cmd("close_order", orderId)>>,
     shown |-> <<Status("Closing order", "success")>>]

performCloseOrder(orderId) ==
    IF ~isConnected
    THEN [sent |-> <<>>, shown |-> <<NotConnected>>]
    ELSE [sent |-> <<Cmd("close_order", orderId)>>,
          shown |-> <<Status("Closing order", "success")>>]

\* ids.forEach(orderId => this.performCloseOrder(orderId))
RECURSIVE forEachPerformCloseOrder(_)
forEachPerformCloseOrder(ids) ==
    IF ids = <<>> THEN [sent |-> <<>>, shown |-> <<>>]
    ELSE LET d == performCloseOrder(Head(ids))
             r == forEachPerformCloseOrder(Tail(ids))
         IN  [sent |-> d.sent \o r.sent, shown |-> d.shown \o r.shown]

\* performCloseSelectedOrders(selectedProcessingOrders)
performCloseSelectedOrders(ids) ==
    LET d == forEachPerformCloseOrder(ids)
    IN  [sent |-> d.sent,
         shown |-> Append(d.shown, Status("Closing processing orders", "success"))]

\* this.selectedOrders.forEach(orderId => this.processOrder(orderId))
RECURSIVE forEachProcessOrder(_)
forEachProcessOrder(ids) ==
    IF ids = <<>> THEN [sent |-> <<>>, shown |-> <<>>]
    ELSE LET d == processOrderDoes(Head(ids))
             r == forEachProcessOrder(Tail(ids))
         IN  [sent |-> d.sent \o r.sent, shown |-> d.shown \o r.shown]

\* processSelectedOrders, the click handler of the Process Selected button.
processSelectedOrders ==
    /\ Idle
    /\ IF ~isConnected
       THEN last' = [Did("processSelectedOrders") EXCEPT !.shown = <<NotConnected>>]
       ELSE IF Len(selectedOrders) = 0
       THEN last' = [Did("processSelectedOrders") EXCEPT
                       !.shown = <<Status("No orders selected", "error")>>]
       ELSE LET d == forEachProcessOrder(selectedOrders)
            IN  last' = [Did("processSelectedOrders") EXCEPT !.sent = d.sent,
                           !.shown = Append(d.shown,
                                            Status("Processing selected orders", "success"))]
    /\ UNCHANGED <<cacheVars, connVars, modalVars>>

\* The selected ids whose cached order has the given status, in selection order.
SelectedWithStatus(status) ==
    SelectSeq(selectedOrders,
              LAMBDA id : MapHas(orders, id) /\ MapGet(orders, id).status = status)

\* A closeSelectedOrders that closes the selected Processing orders at once,
\* asking for no confirmation.
closeSelectedOrders_NoConfirm ==
    /\ Idle
    /\ IF ~isConnected
       THEN last' = [Did("closeSelectedOrders") EXCEPT !.shown = <<NotConnected>>]
       ELSE IF Len(selectedOrders) = 0
       THEN last' = [Did("closeSelectedOrders") EXCEPT
                       !.shown = <<Status("No orders selected", "error")>>]
       ELSE LET d == performCloseSelectedOrders(SelectedWithStatus("Processing"))
            IN  last' = [Did("closeSelectedOrders") EXCEPT !.sent = d.sent, !.shown = d.shown]
    /\ UNCHANGED <<cacheVars, connVars, modalVars>>

\* closeSelectedOrders, the click handler of the Close Selected button.
closeSelectedOrders ==
    /\ Idle
    /\ IF ~isConnected
       THEN /\ last' = [Did("closeSelectedOrders") EXCEPT !.shown = <<NotConnected>>]
            /\ UNCHANGED modalVars
       ELSE IF Len(selectedOrders) = 0
       THEN /\ last' = [Did("closeSelectedOrders") EXCEPT
                          !.shown = <<Status("No orders selected", "error")>>]
            /\ UNCHANGED modalVars
       ELSE IF Len(SelectedWithStatus("Processing")) = 0
       THEN /\ last' = [Did("closeSelectedOrders") EXCEPT
                          !.shown = <<Status("No processing orders selected to close", "error")>>]
            /\ UNCHANGED modalVars
       ELSE /\ last' = Did("closeSelectedOrders")
            /\ showConfirmationModal([fn |-> "performCloseSelectedOrders",
                                      ids |-> SelectedWithStatus("Processing")])
    /\ UNCHANGED <<cacheVars, connVars>>

\* The click handler of the modal's confirm button: hide the modal, call onConfirm.
ModalConfirm ==
    /\ Idle
    /\ modalShown
    /\ modalShown' = FALSE
    /\ LET d == IF onConfirm.fn = "performCloseOrder"
                THEN performCloseOrder(onConfirm.ids[1])
                ELSE performCloseSelectedOrders(onConfirm.ids)
       IN  last' = [Did("confirm") EXCEPT !.sent = d.sent, !.shown = d.shown]
    /\ UNCHANGED <<onConfirm, cacheVars, connVars>>

\* The cancel button, a click outside the modal, the Escape key: hide the modal.
ModalCancel ==
    /\ Idle
    /\ modalShown
    /\ modalShown' = FALSE
    /\ last' = Did("cancel")
    /\ UNCHANGED <<onConfirm, cacheVars, connVars>>

----------------------------------------------------------------------------
(* Specifications *)

\* The whole client: every handler, every input.
Next ==
    \/ \E o \in Order : OnOrderItem(o)
    \/ \E o \in Order : OnOrderUpdated(o)
    \/ OnStatusFrame
    \/ OnErrorFrame
    \/ OnUnknownFrame
    \/ \E t \in CapacityTexts : updateMaxOrdersLimit(t)
    \/ \E n \in PageSizes : SetPageSize(n)
    \/ \E p \in PageArgs : goToPage(p)
    \/ \E id \in Ids : toggleOrderSelection(id)
    \/ deselectAllOrders
    \/ startStream
    \/ stopStream
    \/ generateBatch
    \/ \E id \in Ids : processOrder(id)
    \/ \E id \in Ids : closeOrder(id)
    \/ processSelectedOrders
    \/ closeSelectedOrders
    \/ ModalConfirm
    \/ ModalCancel
    \/ OnOpen
    \/ OnError
    \/ OnClose
    \/ ReconnectTimer

Spec == Init /\ [][Next]_vars

\* The cache on an open connection, on the first page of the default page
\* size: frames with every id and timestamp (the cache reads no status),
\* capacity and selection changes.  The handlers left out write neither the
\* cache nor the selection.
CacheOrders == {o \in Order : o.status = "Pending"}

CacheNext ==
    \/ \E o \in CacheOrders : OnOrderItem(o)
    \/ \E o \in CacheOrders : OnOrderUpdated(o)
    \/ \E t \in CapacityTexts : updateMaxOrdersLimit(t)
    \/ \E id \in Ids : toggleOrderSelection(id)
    \/ deselectAllOrders
    \/ OnOpen

SpecCache == Init /\ [][CacheNext]_vars

\* The pages: frames with every id, one timestamp and one status (the pages
\* read the number of orders only), page, page-size, capacity and selection
\* changes.
PageOrders == {o \in Order : o.status = "Pending" /\ o.timestamp = 1}

PageCapacityTexts == {"0", "2"}

PageNext ==
    \/ \E o \in PageOrders : OnOrderItem(o)
    \/ \E o \in PageOrders : OnOrderUpdated(o)
    \/ \E t \in PageCapacityTexts : updateMaxOrdersLimit(t)
    \/ \E n \in PageSizes : SetPageSize(n)
    \/ \E p \in PageArgs : goToPage(p)
    \/ \E id \in Ids : toggleOrderSelection(id)
    \/ deselectAllOrders
    \/ OnOpen

SpecPage == Init /\ [][PageNext]_vars

\* The commands and the connection: two orders, A older than B, in every status;
\* capacity 1 or the default, so that a frame can evict a cached order.
CmdIds == {"A", "B"}

CmdOrders ==
    {o \in Order : \/ o.order_id = "A" /\ o.timestamp = 1
                   \/ o.order_id = "B" /\ o.timestamp = 2}

CmdCapacityTexts == {"1", "abc"}

CmdNext ==
    \/ \E o \in CmdOrders : OnOrderItem(o)
    \/ \E o \in CmdOrders : OnOrderUpdated(o)
    \/ OnStatusFrame
    \/ OnErrorFrame
    \/ OnUnknownFrame
    \/ \E t \in CmdCapacityTexts : updateMaxOrdersLimit(t)
    \/ \E id \in CmdIds : toggleOrderSelection(id)
    \/ startStream
    \/ stopStream
    \/ generateBatch
    \/ \E id \in Ids : processOrder(id)
    \/ \E id \in Ids : closeOrder(id)
    \/ processSelectedOrders
    \/ closeSelectedOrders
    \/ ModalConfirm
    \/ ModalCancel
    \/ OnOpen
    \/ OnError
    \/ OnClose
    \/ ReconnectTimer

SpecCmd == Init /\ [][CmdNext]_vars

\* A long order book: the server streams up to MaxBook orders, each with a
\* fresh id, while the operator changes the page size and turns the pages.
BookOrder == [order_id |-> ToString(Len(orders) + 1), status |-> "Pending", timestamp |-> 1]

BookNext ==
    \/ Len(orders) < MaxBook /\ OnOrderItem(BookOrder)
    \/ \E n \in PageSizes : SetPageSize(n)
    \/ \E p \in PageButtons : goToPage(p)
    \/ OnOpen

SpecBook == Init /\ [][BookNext]_vars

\* The connection's life: opens, errors, closes and retries, with frames
\* arriving, rows selected and commands sent in between. The 3-second timer fires, the
\* close event follows its error event, and the transport, asked again and
\* again, accepts a connection in the end.
LiveOrders == {o \in Order : o.order_id \in CmdIds /\ o.status = "Pending" /\ o.timestamp = 1}

LiveNext ==
    \/ \E o \in LiveOrders : OnOrderItem(o)
    \/ OnStatusFrame
    \/ \E id \in CmdIds : toggleOrderSelection(id)
    \/ \E id \in CmdIds : processOrder(id)
    \/ startStream
    \/ stopStream
    \/ OnOpen
    \/ OnError
    \/ OnClose
    \/ ReconnectTimer

SpecLive ==
    /\ Init
    /\ [][LiveNext]_vars
    /\ WF_vars(ReconnectTimer)
    /\ WF_vars(ws = "ERRORED" /\ OnClose)
    /\ SF_vars(OnOpen)

----------------------------------------------------------------------------
(* Claims *)

IngestOps == {"order_item", "order_updated"}

CommandOps == {"startStream", "stopStream", "generateBatch", "processOrder", "closeOrder",
               "processSelectedOrders", "closeSelectedOrders", "confirm"}

\* The place of the order with the given id in a sequence of orders.
Pos(seq, id) == CHOOSE i \in 1..Len(seq) : seq[i].order_id = id

\* C1: after every ingest and every capacity change, the number of cached
\* orders is at most the current capacity maxOrders.
C1_SizeWithinCapacity == Len(orders) <= maxOrders

\* C2: every selected identifier is a key of the orders cache, in every state a
\* handler leaves; an identifier evicted while selected is deselected in that step.
C2_SelectionWithinCache ==
    \A i \in 1..Len(selectedOrders) : MapHas(orders, selectedOrders[i])

\* An ingest has just evicted an order that was selected.
C2_Witness ==
    /\ last.op \in IngestOps
    /\ last.evicted # <<>>
    /\ last.dropped # <<>>

\* C3: eviction removes the oldest timestamps first, and among orders of equal
\* timestamp the earliest-inserted first: every evicted order is older than
\* every order kept, or as old and inserted before it (among orders of equal
\* timestamp the sorted array before eviction is in insertion order).
C3_EvictsOldestEarliestInsertedFirst ==
    \A i \in 1..Len(last.evicted), j \in 1..Len(orders) :
        LET x == last.evicted[i]
            y == orders[j]
        IN  \/ x.timestamp < y.timestamp
            \/ /\ x.timestamp = y.timestamp
               /\ Pos(last.before, x.order_id) < Pos(last.before, y.order_id)

\* C4: after every ingest ordersArray lists exactly the cached orders, newest
\* timestamp first, and orders of equal timestamp in the order in which their
\* identifiers were inserted into the cache (the Map's order).
C4_OrderingNewestFirstStable ==
    last.op \in IngestOps =>
        /\ Len(ordersArray) = Len(orders)
        /\ \A i \in 1..Len(orders) : \E j \in 1..Len(ordersArray) : ordersArray[j] = orders[i]
        /\ \A i, j \in 1..Len(ordersArray) :
               i < j =>
                   \/ ordersArray[i].timestamp > ordersArray[j].timestamp
                   \/ /\ ordersArray[i].timestamp = ordersArray[j].timestamp
                      /\ Pos(orders, ordersArray[i].order_id) < Pos(orders, ordersArray[j].order_id)

\* An ingest has left three orders, two of them of equal timestamp, in an
\* ordering that differs from the insertion order.
C4_Witness ==
    /\ last.op \in IngestOps
    /\ Len(ordersArray) = 3
    /\ ordersArray # orders
    /\ \E i \in 1..2 : ordersArray[i].timestamp = ordersArray[i + 1].timestamp
    /\ \E i \in 1..2 : ordersArray[i].timestamp > ordersArray[i + 1].timestamp

\* C5: with a valid (positive) capacity, currentPage lies in
\* [1, max(1, ceil(N / pageSize))] in every reachable state, N the cache size.
C5_PageWithinBounds ==
    maxOrders >= 1 =>
        /\ currentPage >= 1
        /\ currentPage <= Max(1, CeilDiv(Len(orders), pageSize))

C7_CloseOrderRejected ==
    [][(/\ last'.op = "closeOrder"
        /\ ~(MapHas(orders, last'.id) /\ MapGet(orders, last'.id).status = "Processing"))
       => /\ last'.sent = <<>>
          /\ Len(last'.shown) = 1
          /\ last'.shown[1].type = "error"
          /\ UNCHANGED <<cacheVars, modalVars>>]_vars

\* closeOrder has just been rejected, while connected, for a cached Pending order.
C7_Witness ==
    /\ last.op = "closeOrder"
    /\ isConnected
    /\ MapHas(orders, last.id)
    /\ MapGet(orders, last.id).status = "Pending"
    /\ last.shown = <<Status("Only processing orders can be closed", "error")>>

\* C8: processing the selected orders while connected, with the Process
\* Selected button enabled (a Pending order is selected), sends exactly one
\* process_order per selected order whose cached status is Pending, and none
\* for a selected order that is Processing or Done.
C8_ProcessSelectedOnlyPending ==
    (/\ last.op = "processSelectedOrders"
     /\ isConnected
     /\ Len(SelectedWithStatus("Pending")) > 0) =>
        LET pending == SelectedWithStatus("Pending")
        IN  last.sent = [i \in 1..Len(pending) |-> Cmd("process_order", pending[i])]

\* C9: after the handler of a transport close and after the handler of a
\* transport error the client is Disconnected (isConnected = false).
C9_DisconnectedOnCloseOrError ==
    last.op \in {"onclose", "onerror"} => ~isConnected

\* C10: one new connection attempt per close: a close arms exactly one
\* reconnect timer (none is pending), the firing of that timer takes the
\* closed socket to a connecting one and leaves no timer, and nothing else
\* starts a connection attempt.
C10_OneReconnectPerClose ==
    [][/\ last'.op = "onclose" => timers = 0 /\ timers' = 1 /\ ws' = "CLOSED"
       /\ last'.op = "reconnectTimer" => ws = "CLOSED" /\ ws' = "CONNECTING" /\ timers' = 0
       /\ (ws' = "CONNECTING" /\ ws # "CONNECTING") => last'.op = "reconnectTimer"]_vars

\* The reconnect timer has fired after the close of a connection that had
\* been open (orders were received on it), and a new attempt is under way.
C10_Witness ==
    /\ last.op = "reconnectTimer"
    /\ ws = "CONNECTING"
    /\ ~isConnected
    /\ timers = 0
    /\ Len(orders) > 0

\* C11: updateMaxOrdersLimit sets the capacity to n when the supplied value is
\* a positive integer n and to 500 otherwise (zero, negative, non-numeric),
\* and re-runs eviction so that the cache size is at most the new capacity.
C11_CapacityPositiveOrDefault ==
    last.op = "updateMaxOrdersLimit" =>
        LET n == ParseInt(last.id)
        IN  /\ maxOrders = IF ~n.nan /\ n.val > 0 THEN n.val ELSE DefaultMaxOrders
            /\ Len(orders) <= maxOrders

\* The rows of pages 1..n of arr, one page after the other.
RECURSIVE PagesUpTo(_, _, _)
PagesUpTo(arr, n, size) ==
    IF n = 0 THEN <<>>
    ELSE PagesUpTo(arr, n - 1, size) \o renderCurrentPage(arr, n, size)

\* Page sizes the slices are examined with: the configured ones and the ones
\* that divide, and do not divide, a cache of up to three orders.
SliceSizes == PageSizes \cup {1, 3}

\* C12: for every cache content and page size, each page's rows (the slice
\* [(page-1)*pageSize, page*pageSize) of the ordering) number at most pageSize,
\* and the rows of pages 1..totalPages, one after the other, are the full
\* ordering exactly once, whether or not pageSize divides the cache size.
C12_PagesPartitionOrdering ==
    /\ Len(rendered) <= pageSize
    /\ \A size \in SliceSizes :
          LET totalPages == getTotalPages(ordersArray, size)
          IN  /\ \A page \in 1..totalPages :
                    Len(renderCurrentPage(ordersArray, page, size)) <= size
              /\ PagesUpTo(ordersArray, totalPages, size) = ordersArray

C12_Witness ==
    /\ Len(ordersArray) = 3
    /\ pageSize = 2
    /\ currentPage = 2
    /\ Len(rendered) = 1
    /\ rendered[1] = ordersArray[3]

\* C13 as stated: for any integer p, after goToPage(p) the current page is p
\* clamped into [1, max(1, ceil(N/pageSize))].
C13_GoToPageClamps ==
    last.op = "goToPage" =>
        currentPage = Max(1, Min(last.page, Max(1, getTotalPages(ordersArray, pageSize))))

\* C13 amended: after goToPage(p) the current page is p when
\* 1 <= p <= ceil(N/pageSize), and is what it was before otherwise.
C13_GoToPageInRangeOrIgnored ==
    [][last'.op = "goToPage" =>
          currentPage' = IF 1 <= last'.page /\ last'.page <= getTotalPages(ordersArray, pageSize)
                         THEN last'.page
                         ELSE currentPage]_vars

C13_Witness ==
    /\ last.op = "goToPage"
    /\ getTotalPages(ordersArray, pageSize) = 2
    /\ last.page > 2
    /\ currentPage = 1

\* C14: no operator command handler (processOrder, closeOrder,
\* performCloseOrder, processSelectedOrders, closeSelectedOrders and the
\* modal's buttons that run them) changes any cached order, and the status of
\* a cached order changes only in the handler of an order_item or
\* order_updated frame carrying that order's id.
C14_StatusOnlyFromServer ==
    [][/\ last'.op \in CommandOps \cup {"cancel"} =>
             UNCHANGED <<orders, ordersArray, rendered>>
       /\ \A id \in Keys(orders) \cap Keys(orders') :
             MapGet(orders', id).status # MapGet(orders, id).status =>
                 /\ last'.op \in IngestOps
                 /\ last'.id = id
                 /\ last'.order[1].status = MapGet(orders', id).status]_vars

C14_Witness ==
    /\ last.op = "processOrder"
    /\ last.sent = <<Cmd("process_order", last.id)>>
    /\ MapHas(orders, last.id)
    /\ MapGet(orders, last.id).status = "Pending"

\* The order ids of the close_order commands among the given commands.
ClosedIds(sent) ==
    {sent[i].order_id : i \in {j \in 1..Len(sent) : sent[j].command = "close_order"}}

\* The handlers that ask for a close: closeOrder and closeSelectedOrders.
CloseRequestOps == {"closeOrder", "closeSelectedOrders"}

\* C15: a close_order command is emitted only in the confirmation of the
\* pending close request: the step that emits it is the confirm click on the
\* shown modal, the modal was opened (and its callback set) by closeOrder or
\* closeSelectedOrders and by nothing else, the ids closed are the ids of that
\* request, the confirmation consumes the request, and a cancel emits nothing.
C15_CloseOnlyAfterConfirmation ==
    [][/\ ClosedIds(last'.sent) # {} =>
             /\ last'.op = "confirm"
             /\ modalShown /\ ~modalShown'
             /\ onConfirm # NoCallback
             /\ last'.sent = [i \in 1..Len(onConfirm.ids) |->
                                Cmd("close_order", onConfirm.ids[i])]
       /\ (onConfirm' # onConfirm \/ (modalShown' /\ ~modalShown)) =>
             /\ last'.op \in CloseRequestOps
             /\ modalShown'
             /\ onConfirm' # NoCallback
       /\ last'.op \in CloseRequestOps \cup {"cancel"} => last'.sent = <<>>
       /\ last'.op = "cancel" => modalShown /\ ~modalShown']_vars

C15_Witness ==
    /\ last.op = "confirm"
    /\ onConfirm.fn = "performCloseSelectedOrders"
    /\ Len(last.sent) = 2
    /\ ClosedIds(last.sent) = {"A", "B"}
    /\ ~modalShown

\* The frames that carry no order: status, error, and any unknown type.
PlainFrameOps == {"status", "error", "unknown"}

\* C16: an inbound frame of an unknown type, and an inbound status or error
\* frame, leave the order cache, the ordering, the selection, the current
\* page, the page size and the connection state unchanged, and the client
\* keeps handling frames: the socket is still open with its handler attached.
C16_PlainFramesChangeNothing ==
    [][last'.op \in PlainFrameOps =>
          /\ UNCHANGED <<orders, ordersArray, selectedOrders, currentPage, pageSize,
                         maxOrders, rendered>>
          /\ UNCHANGED <<isConnected, ws, timers>>
          /\ ws' = "OPEN"]_vars

C16_Witness ==
    /\ last.op = "unknown"
    /\ Len(orders) = 2
    /\ selectedOrders # <<>>
    /\ isConnected
    /\ ws = "OPEN"

\* The connection events: open, error, close, and the reconnect timer, which
\* starts the new connection attempt.
ConnectionOps == {"onopen", "onerror", "onclose", "reconnectTimer"}

\* C17: connection events (open, close, error, reconnect timer firing, new
\* connection attempt) leave the order cache, the ordering, the selection, the
\* capacity, the current page and the page size unchanged.
C17_ConnectionEventsKeepCache ==
    [][last'.op \in ConnectionOps =>
          UNCHANGED <<orders, ordersArray, selectedOrders, maxOrders, currentPage,
                      pageSize, rendered>>]_vars

C17_Witness ==
    /\ last.op = "onopen"
    /\ Len(orders) = 2
    /\ selectedOrders # <<>>
    /\ isConnected

\* The handlers that mutate the cache: the two ingests and the capacity change.
MutationOps == IngestOps \cup {"updateMaxOrdersLimit"}

\* C18: each mutation (ingest or capacity change) removes exactly
\* max(0, size - capacity) entries, size being the cache size after the
\* insert-or-replace and before eviction.
C18_EvictsExactlyTheExcess ==
    last.op \in MutationOps =>
        /\ Len(last.evicted) = Max(0, Len(last.before) - maxOrders)
        /\ Len(orders) = Len(last.before) - Len(last.evicted)

\* The ids of a sequence of orders.
IdsOf(seq) == {seq[i].order_id : i \in 1..Len(seq)}

\* C19: an order is removed from the cache only by capacity eviction: in every
\* step in which an id leaves the cache's key set, the handler is an ingest or
\* the capacity change, the cache size before eviction exceeded the capacity,
\* and the orders removed are those at the end of the newest-first ordering,
\* whatever their status.
C19_RemovedOnlyByEviction ==
    [][Keys(orders) \ Keys(orders') # {} =>
          /\ last'.op \in MutationOps
          /\ Len(last'.before) > maxOrders'
          /\ Keys(orders) \ Keys(orders') \subseteq IdsOf(last'.evicted)
          /\ last'.evicted = SubSeq(last'.before, maxOrders' + 1, Len(last'.before))]_vars

C19_Witness ==
    /\ last.op \in IngestOps
    /\ Len(last.evicted) = 1
    /\ last.evicted[1].status = "Pending"
    /\ last.evicted[1].order_id # last.id
    /\ Len(orders) = 1
    /\ orders[1].status = "Done"

\* C20: ingest is insert-or-replace by id: ingesting an order whose id is
\* already cached (the cache being within its capacity) replaces that record
\* by the new one and leaves the cache size, the key set and every other
\* record as they were; ingesting a new id below capacity adds exactly that
\* record; and the cache holds at most one record per id.
C20_InsertOrReplaceById ==
    [][/\ Cardinality(Keys(orders')) = Len(orders')
       /\ (last'.op \in IngestOps /\ Len(orders) <= maxOrders) =>
             IF MapHas(orders, last'.id)
             THEN /\ Keys(orders') = Keys(orders)
                  /\ Len(orders') = Len(orders)
                  /\ MapGet(orders', last'.id) = last'.order[1]
                  /\ \A id \in Keys(orders) \ {last'.id} :
                        MapGet(orders', id) = MapGet(orders, id)
             ELSE Len(orders) < maxOrders =>
                  /\ Keys(orders') = Keys(orders) \cup {last'.id}
                  /\ Len(orders') = Len(orders) + 1
                  /\ MapGet(orders', last'.id) = last'.order[1]]_vars

C20_Witness ==
    /\ last.op = "order_updated"
    /\ Len(orders) = 2
    /\ last.evicted = <<>>
    /\ orders[1] = last.order[1]
    /\ last.order[1].timestamp = 2
    /\ ordersArray[1] = last.order[1]
    /\ ordersArray[2].timestamp = 1

\* The t with (t - 1) * size < n <= t * size: ceil(n / size), for n in 0..MaxBook + 1.
CeilOf(n, size) == CHOOSE t \in 0..(MaxBook + 1) : (t - 1) * size < n /\ n <= t * size

\* C21: getTotalPages() is ceil(N / pageSize) for a cache of N orders, and the
\* last page holds exactly N - (totalPages - 1) * pageSize rows; with page size
\* 25 and 57 cached orders there are 3 pages and page 3 has exactly 7 rows.
C21_TotalPagesAndLastPage ==
    LET N == Len(ordersArray)
        totalPages == getTotalPages(ordersArray, pageSize)
    IN  /\ totalPages = CeilOf(N, pageSize)
        /\ N > 0 =>
              Len(renderCurrentPage(ordersArray, totalPages, pageSize))
                  = N - (totalPages - 1) * pageSize
        /\ (N = 57 /\ pageSize = 25) =>
              /\ totalPages = 3
              /\ Len(renderCurrentPage(ordersArray, 3, pageSize)) = 7

C21_Witness ==
    /\ Len(ordersArray) = 57
    /\ pageSize = 25
    /\ currentPage = 3
    /\ getTotalPages(ordersArray, pageSize) = 3
    /\ Len(rendered) = 7

\* C22: every close_order command that is emitted names an order that is in
\* the cache with status Processing at the moment of emission, whatever frames
\* arrived between the close request and the operator's confirmation.
C22_CloseOnlyProcessingAtEmission ==
    \A id \in ClosedIds(last.sent) :
        /\ MapHas(orders, id)
        /\ MapGet(orders, id).status = "Processing"

\* C23: within one ingest the steps run in the order insert-or-replace,
\* re-sort, evict beyond capacity, drop evicted ids from the selection, and
\* only then is the page rendered: the render of an ingest shows the slice of
\* the ordering left by eviction, and observes no cache larger than the
\* capacity, no ordering containing an evicted order, and no selected id that
\* is not in the cache.
C23_RenderAfterEviction ==
    last.op \in IngestOps =>
        /\ rendered = renderCurrentPage(ordersArray, currentPage, pageSize)
        /\ Len(orders) <= maxOrders
        /\ IdsOf(ordersArray) \cap IdsOf(last.evicted) = {}
        /\ IdsOf(rendered) \cap IdsOf(last.evicted) = {}
        /\ \A i \in 1..Len(selectedOrders) : MapHas(orders, selectedOrders[i])

\* The handlers that render the page.
RenderOps == MutationOps \cup {"pageSize", "goToPage", "deselectAllOrders"}

\* C24: after every operation that renders (ingest, capacity change, page-size
\* change, goToPage, deselect-all), and so in every state, the rendered page is
\* exactly the slice [(currentPage-1)*pageSize, currentPage*pageSize) of the
\* cache's current ordering: the displayed rows are never stale.
C24_RenderedIsCurrentSlice ==
    /\ last.op \in RenderOps =>
          rendered = renderCurrentPage(ordersArray, currentPage, pageSize)
    /\ rendered = Slice(SortedValues(orders), (currentPage - 1) * pageSize,
                        currentPage * pageSize)

C24_Witness ==
    /\ last.op = "updateMaxOrdersLimit"
    /\ Len(last.evicted) = 1
    /\ pageSize = 2
    /\ currentPage = 1
    /\ Len(rendered) = 2
    /\ IdsOf(rendered) \cap IdsOf(last.evicted) = {}

\* C25: whenever the client is Disconnected (its socket has closed, after
\* having been open or after a failed attempt), a new connection attempt is
\* eventually made, however many attempts have failed before; and, the
\* transport accepting a connection in the end, the client eventually becomes
\* Connected.
C25_ReconnectsEventually ==
    /\ (ws = "CLOSED") ~> (ws = "CONNECTING")
    /\ (ws = "CLOSED") ~> isConnected

C25_Witness ==
    /\ last.op = "reconnectTimer"
    /\ ws = "CONNECTING"
    /\ ~isConnected
    /\ timers = 0
    /\ Len(orders) = 2

\* C26: whenever the client is Connected there is no pending reconnect timer:
\* reaching Connected leaves no retry timer that could later start another
\* connection attempt.
C26_NoTimerWhileConnected == isConnected => timers = 0

C26_Witness ==
    /\ last.op = "onopen"
    /\ isConnected
    /\ timers = 0
    /\ Len(orders) = 1

\* How many of these there are: a connecting socket, an open socket, pending
\* reconnect timers.
LiveConnections == (IF ws \in {"CONNECTING", "OPEN"} THEN 1 ELSE 0) + timers

RecordsOf(seq) == {seq[i] : i \in 1..Len(seq)}

\* C28: after every handler, ordersArray is consistent with the orders map: it
\* holds exactly the records of the map, each exactly once
\* (ordersArray.length = orders.size), sorted by timestamp descending.
C28_ArrayMirrorsMap ==
    /\ Len(ordersArray) = Len(orders)
    /\ RecordsOf(ordersArray) = RecordsOf(orders)
    /\ Cardinality(IdsOf(ordersArray)) = Len(ordersArray)
    /\ \A i \in 1..Len(ordersArray), j \in 1..Len(ordersArray) :
          i < j => ordersArray[i].timestamp >= ordersArray[j].timestamp

C28_Witness ==
    /\ last.op = "updateMaxOrdersLimit"
    /\ Len(last.evicted) = 1
    /\ Len(ordersArray) = 2
    /\ ordersArray[1].timestamp > ordersArray[2].timestamp
    /\ orders[1] = ordersArray[2]

\* C29: when the cache is full (size = capacity, capacity >= 1) and an order
\* with a new id arrives whose timestamp is strictly older than every cached
\* order's, the arriving order itself is evicted in the same step: the cache,
\* the ordering and the selection after the ingest are those before it.
C29_OlderArrivalEvictsItself ==
    [][(/\ last'.op \in IngestOps
        /\ ~MapHas(orders, last'.id)
        /\ maxOrders >= 1
        /\ Len(orders) = maxOrders
        /\ \A i \in 1..Len(orders) : orders[i].timestamp > last'.order[1].timestamp)
       => /\ last'.evicted = last'.order
          /\ Keys(orders') = Keys(orders)
          /\ orders' = orders
          /\ ordersArray' = ordersArray
          /\ selectedOrders' = selectedOrders
          /\ rendered' = rendered]_vars

C29_Witness ==
    /\ last.op \in IngestOps
    /\ last.evicted = last.order
    /\ maxOrders = 2
    /\ Len(orders) = 2
    /\ \A i \in 1..Len(orders) : orders[i].timestamp > last.order[1].timestamp
    /\ selectedOrders # <<>>

\* C30: order_updated and order_item frames are handled identically: handling
\* order_updated leaves the cache, the ordering, the selection and the page
\* that handling order_item with the same record would leave; in particular an
\* order_updated frame for an id that is not cached inserts a new order.
C30_UpdatedHandledAsItem ==
    [][last'.op = "order_updated" =>
          LET d == addOrderToTableDoes(last'.order[1])
          IN  /\ orders' = d.orders
              /\ ordersArray' = d.ordersArray
              /\ selectedOrders' = d.selectedOrders
              /\ rendered' = d.rendered
              /\ last'.before = d.before
              /\ last'.evicted = d.evicted
              /\ UNCHANGED <<currentPage, pageSize, maxOrders, connVars, modalVars>>
              /\ (~MapHas(orders, last'.id) /\ Len(orders) < maxOrders) =>
                    /\ MapHas(orders', last'.id)
                    /\ Len(orders') = Len(orders) + 1]_vars

C30_Witness ==
    /\ last.op = "order_updated"
    /\ last.before = last.order
    /\ last.evicted = <<>>
    /\ orders = last.order
    /\ rendered = last.order

\* C31: changing the page size always sets the current page to 1, whatever
\* page was shown before and whatever the cache size is, and leaves the cache,
\* the ordering and the selection unchanged.
C31_PageSizeChangeGoesToFirstPage ==
    [][last'.op = "pageSize" =>
          /\ currentPage' = 1
          /\ last'.page = currentPage
          /\ UNCHANGED <<orders, ordersArray, selectedOrders, maxOrders>>]_vars

C31_Witness ==
    /\ last.op = "pageSize"
    /\ last.page = 2
    /\ currentPage = 1
    /\ pageSize = DefaultPageSize
    /\ Len(orders) = 3
    /\ Len(rendered) = 3
    /\ selectedOrders # <<>>

====
